---- MODULE Spec2Model ----
(***************************************************************************)
(* A model of the rag-assessment backend: the chunking strategies of       *)
(* app/services/chunking.py and the query pipeline of app/services/rag.py  *)
(* with its conversation log (app/services/redis_service.py).              *)
(*                                                                         *)
(* Text is a sequence of one-character strings, so that slicing, strip(),  *)
(* the regular expressions and the f-strings are computed character by     *)
(* character as the Python code computes them.                             *)
(***************************************************************************)
EXTENDS Integers, Sequences, FiniteSets, TLC

\* ------------------------------------------------------------------ bounds
\* Longest raw document, in characters.
MaxLen == 5
\* Largest chunk_size / chunk_overlap / min_chunk_size constructor argument.
MaxSize == 3
\* Loop iterations of FixedSizeChunking.chunk the model follows before it
\* stops following a run (a run with a positive advance needs at most
\* Len(text) <= MaxLen of them).
MaxIter == 8
\* Messages a session log holds before the query under study, at most.
MaxHistory == 12
\* Entries that are no JSON in a session log, at most.
MaxForeign == 2

\* ------------------------------------------------------ program constants
\* The defaults of settings.chunk_size and settings.chunk_overlap
\* (app/config.py); Settings is a BaseSettings, so the environment or .env
\* may set either to another integer.
DefaultChunkSize == 500
DefaultChunkOverlap == 50
\* SemanticChunking.__init__'s default min_chunk_size.
DefaultMinChunkSize == 100

\* ----------------------------------------------------------- text helpers
Min(a, b) == IF a < b THEN a ELSE b
Max(a, b) == IF a > b THEN a ELSE b

\* The characters documents are drawn from: a letter, a sentence end, and two
\* kinds of whitespace.
Chars == {"a", ".", " ", "\n"}

\* Python's str.isspace on one character, which is what \s matches.
IsSpace(c) == c \in {" ", "\n", "\t", "\r"}

\* All sequences over S of length at most n.
SeqsUpTo(S, n) == UNION {[1..k -> S] : k \in 0..n}

\* str.strip(): leading and trailing whitespace removed.
RECURSIVE LStrip(_)
LStrip(s) ==
    IF s = <<>> THEN <<>>
    ELSE IF IsSpace(Head(s)) THEN LStrip(Tail(s)) ELSE s

RECURSIVE RStrip(_)
RStrip(s) ==
    IF s = <<>> THEN <<>>
    ELSE IF IsSpace(s[Len(s)]) THEN RStrip(SubSeq(s, 1, Len(s) - 1)) ELSE s

Strip(s) == RStrip(LStrip(s))

\* re.sub(P+, repl, s) for a one-character class P: every maximal run of
\* characters satisfying inClass is replaced by the single character repl.
RECURSIVE SubRuns(_, _, _)
SubRuns(s, cls, repl) ==
    IF s = <<>> THEN <<>>
    ELSE IF Head(s) \in cls
         THEN IF Len(s) > 1 /\ s[2] \in cls
              THEN SubRuns(Tail(s), cls, repl)
              ELSE <<repl>> \o SubRuns(Tail(s), cls, repl)
         ELSE <<Head(s)>> \o SubRuns(Tail(s), cls, repl)

WhitespaceChars == {" ", "\n", "\t", "\r"}

\* Python's s[a:b] for integers a, b (negative indices count from the end,
\* out-of-range indices are clamped).
PyIndex(i, n) == IF i < 0 THEN Max(i + n, 0) ELSE Min(i, n)

PySlice(s, a, b) ==
    LET lo == PyIndex(a, Len(s))
        hi == PyIndex(b, Len(s))
    IN  IF lo < hi THEN SubSeq(s, lo + 1, hi) ELSE <<>>

\* " ".join(parts)
RECURSIVE JoinSpace(_)
JoinSpace(parts) ==
    IF parts = <<>> THEN <<>>
    ELSE IF Len(parts) = 1 THEN parts[1]
    ELSE parts[1] \o <<" ">> \o JoinSpace(Tail(parts))

\* `x or default`: None and 0 are both falsy; the model writes None as 0.
OrDefault(arg, default) == IF arg = 0 THEN default ELSE arg

\* ------------------------------------------------------------- variables
VARIABLES
    \* app.config.settings, as loaded when the process starts
    settings,
    \* the call under study: strategy class, constructor arguments, raw text
    strategy, args, document,
    \* where the call is: "new", "constructed", "loop", "done"
    cpc,
    \* the chunker object's fields (self.chunk_size, ...), set by __init__
    self,
    \* locals of chunk(): cleaned text, results so far, next index
    text, chunks, chunk_index,
    \* FixedSizeChunking.chunk: window start; iterations of the loop so far
    start, iters,
    \* SemanticChunking.chunk: sentence list, sentences consumed so far,
    \* the accumulator and its size
    sentences, si, current_chunk, current_size,
    \* history: every sentence group the loop closed or flushed, in order,
    \* whether or not it passed the min_chunk_size floor
    groups,
    \* Redis: the list stored under each session key
    log,
    \* the calls of RAGService.query in progress: position and locals
    req,
    \* history: every rpush that succeeded, in order, with its caller
    writes,
    \* the call of ingest_document in progress: position, inputs, history of
    \* its collaborator calls, and the HTTP response
    ing,
    \* the last get_conversation_history call made directly on the store:
    \* its arguments, what it returned, and the log it read
    rd,
    \* history: what each direct call of _format_sources returned
    fs

chunkVars ==
    <<settings, strategy, args, document, cpc, self, text, chunks,
      chunk_index, start, iters, sentences, si, current_chunk,
      current_size, groups>>

ragVars == <<log, req, writes>>

ingestVars == <<ing>>

storeVars == <<rd, fs>>

vars == <<chunkVars, ragVars, ingestVars, storeVars>>

\* ------------------------------------------------ chunking.py: cleaning
\* FixedSizeChunking._clean_text
FixedCleanText(t) ==
    Strip(SubRuns(SubRuns(t, WhitespaceChars, " "), {"\n"}, "\n"))

\* SemanticChunking._clean_text
SemanticCleanText(t) ==
    Strip(SubRuns(SubRuns(t, WhitespaceChars, " "), {"\n"}, " "))

SentenceEnd == {".", "!", "?"}

\* The first index >= i of s that holds no whitespace (Len(s) + 1 if none).
RECURSIVE SkipSpace(_, _)
SkipSpace(s, i) ==
    IF i > Len(s) \/ ~IsSpace(s[i]) THEN i ELSE SkipSpace(s, i + 1)

\* re.split(r'(?<=[.!?])\s+', s) scanning from index i, the current piece
\* starting at index from.
RECURSIVE ReSplit(_, _, _)
ReSplit(s, i, from) ==
    IF i > Len(s) THEN <<SubSeq(s, from, Len(s))>>
    ELSE IF IsSpace(s[i]) /\ i > 1 /\ s[i - 1] \in SentenceEnd
         THEN LET j == SkipSpace(s, i)
              IN  <<SubSeq(s, from, i - 1)>> \o ReSplit(s, j, j)
         ELSE ReSplit(s, i + 1, from)

\* [s.strip() for s in pieces if s.strip()]
RECURSIVE StripNonEmpty(_)
StripNonEmpty(pieces) ==
    IF pieces = <<>> THEN <<>>
    ELSE IF Strip(Head(pieces)) = <<>> THEN StripNonEmpty(Tail(pieces))
    ELSE <<Strip(Head(pieces))>> \o StripNonEmpty(Tail(pieces))

\* SemanticChunking._split_into_sentences
SplitIntoSentences(t) == StripNonEmpty(ReSplit(t, 1, 1))

\* --------------------------------------------- chunking.py: construction
\* The settings a process may run with: the defaults, or overrides from the
\* environment.
SettingsChoices ==
    [chunk_size : {DefaultChunkSize}, chunk_overlap : {0, DefaultChunkOverlap}]

\* Constructor arguments; 0 also stands for an argument left at None.
FixedArgs ==
    [chunk_size : 0..MaxSize, chunk_overlap : 0..MaxSize, min_chunk_size : {0}]

SemanticArgs ==
    [chunk_size : 0..MaxSize, chunk_overlap : {0},
     min_chunk_size : (0..MaxSize) \cup {DefaultMinChunkSize}]

Documents == SeqsUpTo(Chars, MaxLen)

NoSelf == [chunk_size |-> 0, chunk_overlap |-> 0, min_chunk_size |-> 0]

\* ingest_document before it is called.
NoIngest ==
    [pc |-> "idle", chunking_strategy |-> "", text |-> <<>>, status |-> 0,
     detail |-> "", chunks_count |-> 0, calls |-> <<>>]

\* No direct read of the store has been made.
NoRead == [session_id |-> "none", limit |-> 0, messages |-> <<>>,
           log_before |-> <<>>, done |-> FALSE]

InitChunking ==
    /\ settings \in SettingsChoices
    /\ strategy \in {"fixed", "semantic"}
    /\ args \in IF strategy = "fixed" THEN FixedArgs ELSE SemanticArgs
    /\ document \in Documents
    /\ cpc = "new"
    /\ self = NoSelf
    /\ text = <<>>
    /\ chunks = <<>>
    /\ chunk_index = 0
    /\ start = 0
    /\ iters = 0
    /\ sentences = <<>>
    /\ si = 0
    /\ current_chunk = <<>>
    /\ current_size = 0
    /\ groups = <<>>
    /\ log = <<>>
    /\ req = <<>>
    /\ writes = <<>>
    /\ ing = NoIngest
    /\ rd = NoRead
    /\ fs = <<>>

\* FixedSizeChunking.__init__
FixedConstruct ==
    /\ cpc = "new"
    /\ strategy = "fixed"
    /\ self' = [chunk_size |-> OrDefault(args.chunk_size, settings.chunk_size),
                chunk_overlap |->
                    OrDefault(args.chunk_overlap, settings.chunk_overlap),
                min_chunk_size |-> 0]
    /\ cpc' = "constructed"
    /\ UNCHANGED <<settings, strategy, args, document, text, chunks,
                   chunk_index, start, iters, sentences, si, current_chunk,
                   current_size, groups>>
    /\ UNCHANGED <<ragVars, ingestVars, storeVars>>

\* SemanticChunking.__init__
SemanticConstruct ==
    /\ cpc = "new"
    /\ strategy = "semantic"
    /\ self' = [chunk_size |-> OrDefault(args.chunk_size, settings.chunk_size),
                chunk_overlap |-> 0,
                min_chunk_size |-> args.min_chunk_size]
    /\ cpc' = "constructed"
    /\ UNCHANGED <<settings, strategy, args, document, text, chunks,
                   chunk_index, start, iters, sentences, si, current_chunk,
                   current_size, groups>>
    /\ UNCHANGED <<ragVars, ingestVars, storeVars>>

\* ------------------------------------------ FixedSizeChunking.chunk
\* `if chunk_text.strip():`
FixedEmits(chunk_text) == Strip(chunk_text) /= <<>>

\* The chunk dictionary appended for the window [s, e).
FixedChunk(index, chunk_text, s, e) ==
    [chunk_index |-> index,
     chunk_text |-> Strip(chunk_text),
     chunk_size |-> Len(chunk_text),
     start_position |-> s,
     end_position |-> e]

\* Mutant: the index is advanced for skipped windows and groups too.
NextIndexAlways(index, appended) == index + 1

\* `chunk_index += 1`, which both loops run only after an append.
NextIndex(index, appended) == IF appended THEN index + 1 ELSE index

\* Mutant: the overlap is added instead of subtracted.
FixedAdvanceAdds(end, chunk_overlap) == end + chunk_overlap

\* `start = end - self.chunk_overlap`
FixedAdvance(end, chunk_overlap) == end - chunk_overlap

\* `if start <= 0 and end >= len(text): break`
FixedBreaks(newStart, end, t) == newStart <= 0 /\ end >= Len(t)

\* chunk(), up to the loop: the locals are set and the text is cleaned.
FixedBegin ==
    /\ cpc = "constructed"
    /\ strategy = "fixed"
    /\ chunks' = <<>>
    /\ start' = 0
    /\ chunk_index' = 0
    /\ text' = FixedCleanText(document)
    /\ cpc' = "loop"
    /\ UNCHANGED <<settings, strategy, args, document, self, iters,
                   sentences, si, current_chunk, current_size, groups>>
    /\ UNCHANGED <<ragVars, ingestVars, storeVars>>

\* One iteration of `while start < len(text):`.
FixedIterate ==
    /\ cpc = "loop"
    /\ strategy = "fixed"
    /\ start < Len(text)
    /\ iters < MaxIter
    /\ LET end == start + self.chunk_size
           chunk_text == PySlice(text, start, end)
           newStart == FixedAdvance(end, self.chunk_overlap)
       IN  /\ chunks' = IF FixedEmits(chunk_text)
                        THEN Append(chunks,
                                    FixedChunk(chunk_index, chunk_text,
                                               start, end))
                        ELSE chunks
           /\ chunk_index' = NextIndex(chunk_index, FixedEmits(chunk_text))
           /\ start' = newStart
           /\ cpc' = IF FixedBreaks(newStart, end, text) THEN "done"
                     ELSE "loop"
    /\ iters' = iters + 1
    /\ UNCHANGED <<settings, strategy, args, document, self, text,
                   sentences, si, current_chunk, current_size, groups>>
    /\ UNCHANGED <<ragVars, ingestVars, storeVars>>

\* The loop condition fails: `return chunks`.
FixedReturn ==
    /\ cpc = "loop"
    /\ strategy = "fixed"
    /\ ~(start < Len(text))
    /\ cpc' = "done"
    /\ UNCHANGED <<settings, strategy, args, document, self, text, chunks,
                   chunk_index, start, iters, sentences, si, current_chunk,
                   current_size, groups>>
    /\ UNCHANGED <<ragVars, ingestVars, storeVars>>

\* -------------------------------------------- SemanticChunking.chunk
\* Mutant: a group is closed as soon as the next sentence would reach the
\* target.
SemanticClosesAtTarget(size, sentence_length, chunk_size, acc) ==
    size + sentence_length >= chunk_size /\ acc /= <<>>

\* `if current_size + sentence_length > self.chunk_size and current_chunk:`
SemanticCloses(size, sentence_length, chunk_size, acc) ==
    size + sentence_length > chunk_size /\ acc /= <<>>

\* Mutant: the floor is not applied.
PassesFloorOff(chunk_text, min_chunk_size) == Len(chunk_text) >= 0

\* `if len(chunk_text) >= self.min_chunk_size:`
PassesFloor(chunk_text, min_chunk_size) == Len(chunk_text) >= min_chunk_size

\* Mutant: the sentence that closed a group is not carried into the next.
StartNewChunkEmpty(sentence) == <<>>

\* `current_chunk = [sentence]`
StartNewChunk(sentence) == <<sentence>>

\* The chunk dictionary appended for a sentence group.
SemanticChunk(index, group) ==
    [chunk_index |-> index,
     chunk_text |-> JoinSpace(group),
     chunk_size |-> Len(JoinSpace(group)),
     sentence_count |-> Len(group)]

\* chunk(), up to the loop.
SemanticBegin ==
    /\ cpc = "constructed"
    /\ strategy = "semantic"
    /\ text' = SemanticCleanText(document)
    /\ sentences' = SplitIntoSentences(SemanticCleanText(document))
    /\ chunks' = <<>>
    /\ current_chunk' = <<>>
    /\ current_size' = 0
    /\ chunk_index' = 0
    /\ si' = 0
    /\ cpc' = "loop"
    /\ UNCHANGED <<settings, strategy, args, document, self, start, iters,
                   groups>>
    /\ UNCHANGED <<ragVars, ingestVars, storeVars>>

\* One iteration of `for sentence in sentences:`.
SemanticIterate ==
    /\ cpc = "loop"
    /\ strategy = "semantic"
    /\ si < Len(sentences)
    /\ LET sentence == sentences[si + 1]
           sentence_length == Len(sentence)
       IN  IF SemanticCloses(current_size, sentence_length, self.chunk_size,
                             current_chunk)
           THEN /\ chunks' =
                       IF PassesFloor(JoinSpace(current_chunk),
                                      self.min_chunk_size)
                       THEN Append(chunks,
                                   SemanticChunk(chunk_index, current_chunk))
                       ELSE chunks
                /\ chunk_index' =
                       NextIndex(chunk_index,
                                 PassesFloor(JoinSpace(current_chunk),
                                             self.min_chunk_size))
                /\ groups' = Append(groups, current_chunk)
                /\ current_chunk' = StartNewChunk(sentence)
                /\ current_size' = sentence_length
           ELSE /\ current_chunk' = Append(current_chunk, sentence)
                /\ current_size' = current_size + sentence_length
                /\ UNCHANGED <<chunks, chunk_index, groups>>
    /\ si' = si + 1
    /\ UNCHANGED <<settings, strategy, args, document, cpc, self, text,
                   start, iters, sentences>>
    /\ UNCHANGED <<ragVars, ingestVars, storeVars>>

\* After the loop: the remaining group is flushed and chunks is returned.
SemanticFlush ==
    /\ cpc = "loop"
    /\ strategy = "semantic"
    /\ si = Len(sentences)
    /\ IF current_chunk /= <<>>
       THEN /\ IF PassesFloor(JoinSpace(current_chunk), self.min_chunk_size)
               THEN chunks' = Append(chunks,
                                SemanticChunk(chunk_index, current_chunk))
               ELSE UNCHANGED chunks
            /\ groups' = Append(groups, current_chunk)
       ELSE UNCHANGED <<chunks, groups>>
    /\ cpc' = "done"
    /\ UNCHANGED <<settings, strategy, args, document, self, text,
                   chunk_index, start, iters, sentences, si, current_chunk,
                   current_size>>
    /\ UNCHANGED <<ragVars, ingestVars, storeVars>>

NextChunking ==
    \/ FixedConstruct
    \/ FixedBegin
    \/ FixedIterate
    \/ FixedReturn
    \/ SemanticConstruct
    \/ SemanticBegin
    \/ SemanticIterate
    \/ SemanticFlush

SpecChunking == InitChunking /\ [][NextChunking]_vars

\* ======================================================================
\* rag.py and redis_service.py: the query pipeline and the conversation log
\* ======================================================================
\* ------------------------------------------------------ program constants
\* top_k as chat.py passes it (and query()'s default).
TopK == 5
\* `limit=10` of the history read in query().
HistoryLimit == 10
\* `[:200]` of _format_sources.
PreviewLen == 200

\* -------------------------------------------------------------- inputs
\* The calls of query() under study, named in their order of arrival.
Requests == {"r1", "r2"}
ArrivesAfter == [r \in Requests |-> IF r = "r2" THEN {"r1"} ELSE {}]
Sessions == {"s1", "s2"}

\* User queries: two that carry no booking keyword, one that carries one in
\* mixed case.
QueryHi == <<"h", "i">>
QueryWhy == <<"w", "h", "y", "?">>
QueryBook == <<"B", "o", "o", "k">>
Queries == {QueryHi, QueryWhy, QueryBook}

\* What the language model may answer (message.content), before strip(): a
\* plain reply, one with blanks around it and characters json.dumps escapes,
\* and a blank one.
Replies == {<<"o", "k">>, <<" ", "\"", "o", "k", "\"", "\n">>, <<" ", "\n">>}

\* str(e) of what the language-model call may raise.
LlmErrors == {<<"t", "i", "m", "e", "o", "u", "t">>}

\* A chunk text longer than the preview.
LongText == [i \in 1..(PreviewLen + 1) |-> "x"]

\* Points of the vector index, as VectorStore.search formats them; scores
\* are in units of 10^-6.  The payload of the second has no filename.
Hit1 ==
    [id |-> "p1", score |-> 912345,
     metadata |-> [document_id |-> "d1", filename |-> "a.txt",
                   chunk_text |-> <<"a", "b">>]]
Hit2 ==
    [id |-> "p2", score |-> 500050,
     metadata |-> [document_id |-> "d2", chunk_text |-> LongText]]

\* What vector_store.search may return: at most top_k results, by descending
\* score.
SearchResponses(top_k) ==
    {resp \in {<<>>, <<Hit1, Hit2>>} : Len(resp) <= top_k}

\* ------------------------------------------------------------- helpers
\* dict.get(key, default)
DictGet(d, key, default) == IF key \in DOMAIN d THEN d[key] ELSE default

UpperLetters ==
    <<"A", "B", "C", "D", "E", "F", "G", "H", "I", "J", "K", "L", "M", "N",
      "O", "P", "Q", "R", "S", "T", "U", "V", "W", "X", "Y", "Z">>
LowerLetters ==
    <<"a", "b", "c", "d", "e", "f", "g", "h", "i", "j", "k", "l", "m", "n",
      "o", "p", "q", "r", "s", "t", "u", "v", "w", "x", "y", "z">>

\* str.lower() on one character, then on a string.
LowerOf ==
    [c \in {UpperLetters[i] : i \in 1..Len(UpperLetters)} |->
        LowerLetters[CHOOSE i \in 1..Len(UpperLetters) : UpperLetters[i] = c]]

LowerChar(c) == IF c \in DOMAIN LowerOf THEN LowerOf[c] ELSE c

\* Mutant: the query is compared as typed.
StrLowerAsTyped(t) == t

StrLower(t) == [i \in 1..Len(t) |-> LowerChar(t[i])]

\* `kw in t` for strings.
Contains(t, kw) ==
    \E i \in 0..(Len(t) - Len(kw)) : SubSeq(t, i + 1, i + Len(kw)) = kw

\* round(x, 4) for x in units of 10^-6: to a multiple of 100, ties to even.
Round4(x) ==
    LET q == x \div 100
        r == x % 100
    IN  IF r < 50 THEN q * 100
        ELSE IF r > 50 THEN (q + 1) * 100
        ELSE IF q % 2 = 0 THEN q * 100 ELSE (q + 1) * 100

\* ------------------------------------------------------- redis_service.py
\* Mutant: every session is stored under one key.
SessionKeyShared(session_id) == <<"chat:session:", "s1">>

\* RedisService._get_session_key
SessionKey(session_id) == <<"chat:session:", session_id>>

SessionKeys == {SessionKey(sid) : sid \in Sessions}

\* json.dumps escapes quotes, backslashes and control characters of a string;
\* json.loads undoes it.  The model keeps the object's keys and escapes the
\* content string.
RECURSIVE JsonEscape(_)
JsonEscape(t) ==
    IF t = <<>> THEN <<>>
    ELSE (CASE Head(t) = "\"" -> <<"\\", "\"">>
            [] Head(t) = "\\" -> <<"\\", "\\">>
            [] Head(t) = "\n" -> <<"\\", "n">>
            [] OTHER -> <<Head(t)>>) \o JsonEscape(Tail(t))

RECURSIVE JsonUnescape(_)
JsonUnescape(t) ==
    IF t = <<>> THEN <<>>
    ELSE IF Head(t) = "\\" /\ Len(t) > 1
         THEN <<(IF t[2] = "n" THEN "\n" ELSE t[2])>>
                  \o JsonUnescape(Tail(Tail(t)))
         ELSE <<Head(t)>> \o JsonUnescape(Tail(t))

\* The message dictionary save_message builds (metadata defaults to {}).
Message(role, content) ==
    [role |-> role, content |-> content, metadata |-> <<>>]

JsonDumps(message) ==
    [role |-> message.role, content |-> JsonEscape(message.content),
     metadata |-> message.metadata]

JsonLoads(entry) ==
    [role |-> entry.role, content |-> JsonUnescape(entry.content),
     metadata |-> entry.metadata]

\* Mutant: the entry is pushed at the head of the list.
LPush(list, entry) == <<entry>> \o list

\* Redis RPUSH
RPush(list, entry) == Append(list, entry)

\* Redis LRANGE key a b: inclusive 0-based indices, negative ones counted
\* from the end, out-of-range ones clamped.
LRange(list, a, b) ==
    LET n == Len(list)
        lo == IF a < 0 THEN Max(n + a, 0) ELSE a
        hi == IF b < 0 THEN n + b ELSE Min(b, n - 1)
    IN  IF lo > hi THEN <<>> ELSE SubSeq(list, lo + 1, hi + 1)

\* An entry of a list that json.loads cannot decode: some text that is no
\* JSON, stored under the key by another client of the Redis server.
ForeignEntry == [raw |-> <<"{", "r", "o", "l", "e">>]

\* json.loads(msg) does not raise JSONDecodeError: in the model, the entry
\* is a dumped message.
IsJson(entry) == "role" \in DOMAIN entry

\* Mutant: the messages are returned newest first.
GetConversationHistoryNewestFirst(list, limit) ==
    LET messages == IF limit /= 0 THEN LRange(list, 0 - limit, -1)
                    ELSE LRange(list, 0, -1)
        parsed == SelectSeq(messages, IsJson)
    IN  [i \in 1..Len(parsed) |-> JsonLoads(parsed[Len(parsed) + 1 - i])]

\* Mutant: an entry that cannot be decoded is returned as it is stored.
GetConversationHistoryKeepsAll(list, limit) ==
    LET messages == IF limit /= 0 THEN LRange(list, 0 - limit, -1)
                    ELSE LRange(list, 0, -1)
    IN  [i \in 1..Len(messages) |->
            IF IsJson(messages[i]) THEN JsonLoads(messages[i])
            ELSE messages[i]]

\* RedisService.get_conversation_history; limit 0 stands for None too.  An
\* entry whose json.loads raises JSONDecodeError is skipped.
GetConversationHistory(list, limit) ==
    LET messages == IF limit /= 0 THEN LRange(list, 0 - limit, -1)
                    ELSE LRange(list, 0, -1)
        parsed == SelectSeq(messages, IsJson)
    IN  [i \in 1..Len(parsed) |-> JsonLoads(parsed[i])]

\* How a save_message call may end: both Redis commands succeed, rpush
\* raises (nothing is stored), or expire raises after rpush stored the entry.
SaveOutcomes == {"ok", "rpush_raises", "expire_raises"}

\* ----------------------------------------------------------------- rag.py
BookingKeywords ==
    {<<"b", "o", "o", "k">>,
     <<"s", "c", "h", "e", "d", "u", "l", "e">>,
     <<"i", "n", "t", "e", "r", "v", "i", "e", "w">>,
     <<"a", "p", "p", "o", "i", "n", "t", "m", "e", "n", "t">>,
     <<"m", "e", "e", "t", "i", "n", "g">>,
     <<"s", "e", "t", " ", "u", "p">>,
     <<"a", "r", "r", "a", "n", "g", "e">>,
     <<"r", "e", "s", "e", "r", "v", "e">>}

\* RAGService._is_booking_intent
IsBookingIntent(query) ==
    \E kw \in BookingKeywords : Contains(StrLower(query), kw)

\* Mutant: the intent check never diverts a query.
RoutesToBookingNever(query) == FALSE

\* `if self._is_booking_intent(user_query):` in query()
RoutesToBooking(query) == IsBookingIntent(query)

BookingResult ==
    [type |-> "booking_intent",
     message |-> "I detected you want to book an interview. Please provide: name, email, date (YYYY-MM-DD), and time (HH:MM)",
     sources |-> <<>>]

\* Mutant: the user message is saved before the query is embedded.
StepAfterSaveFirst(step) ==
    CASE step = "routing" -> "save_user"
      [] step = "save_user" -> "embed"
      [] step = "embed" -> "search"
      [] step = "search" -> "history"
      [] step = "history" -> "generate"
      [] step = "generate" -> "save_assistant"
      [] step = "save_assistant" -> "returned"

\* The order of the steps of query() after the intent check.
StepAfter(step) ==
    CASE step = "routing" -> "embed"
      [] step = "embed" -> "search"
      [] step = "search" -> "history"
      [] step = "history" -> "generate"
      [] step = "generate" -> "save_user"
      [] step = "save_user" -> "save_assistant"
      [] step = "save_assistant" -> "returned"

\* EmbeddingService.generate_embedding: an opaque vector of the query.
Embedding(query) == <<"embedding", query>>

\* str(n) for 0 <= n <= 99
Digits == <<"0", "1", "2", "3", "4", "5", "6", "7", "8", "9">>

DecimalStr(n) ==
    IF n < 10 THEN <<Digits[n + 1]>>
    ELSE <<Digits[(n \div 10) + 1], Digits[(n % 10) + 1]>>

\* The characters of a role or file name held as one value.
NameChars(name) ==
    CASE name = "user" -> <<"u", "s", "e", "r">>
      [] name = "assistant" ->
             <<"a", "s", "s", "i", "s", "t", "a", "n", "t">>
      [] name = "a.txt" -> <<"a", ".", "t", "x", "t">>
      [] name = "b.pdf" -> <<"b", ".", "p", "d", "f">>
      [] name = "Unknown" -> <<"U", "n", "k", "n", "o", "w", "n">>
      [] name = "" -> <<>>

\* str.capitalize(): first character upper-cased, the rest lower-cased.
StrCapitalize(t) ==
    [i \in 1..Len(t) |->
        IF i = 1
        THEN (IF \E k \in 1..Len(LowerLetters) : LowerLetters[k] = t[i]
              THEN UpperLetters[CHOOSE k \in 1..Len(LowerLetters) :
                                    LowerLetters[k] = t[i]]
              ELSE t[i])
        ELSE LowerChar(t[i])]

\* "\n".join(parts)
RECURSIVE JoinNewline(_)
JoinNewline(parts) ==
    IF parts = <<>> THEN <<>>
    ELSE IF Len(parts) = 1 THEN parts[1]
    ELSE parts[1] \o <<"\n">> \o JoinNewline(Tail(parts))

\* `[Source {idx}: {source}]\n{chunk_text}\n` for the result at 1-based idx
ContextPart(idx, result) ==
    LET metadata == DictGet(result, "metadata", <<>>)
        chunk_text == DictGet(metadata, "chunk_text", <<>>)
        source == DictGet(metadata, "filename", "Unknown")
    IN  <<"[", "S", "o", "u", "r", "c", "e", " ">> \o DecimalStr(idx)
            \o <<":", " ">> \o NameChars(source) \o <<"]", "\n">>
            \o chunk_text \o <<"\n">>

\* Mutant: the blocks are numbered in input order but built from the
\* results in reverse.
ContextPartsReversed(context_results) ==
    [i \in 1..Len(context_results) |->
        ContextPart(i, context_results[Len(context_results) + 1 - i])]

ContextParts(context_results) ==
    [i \in 1..Len(context_results) |-> ContextPart(i, context_results[i])]

\* `conversation_history[-6:]`
HistoryWindow(conversation_history) ==
    PySlice(conversation_history, -6, Len(conversation_history))

\* `if role and content:`
Rendered(msg) ==
    DictGet(msg, "role", "") /= "" /\ DictGet(msg, "content", <<>>) /= <<>>

\* f"{role.capitalize()}: {content}"
HistoryLine(msg) ==
    StrCapitalize(NameChars(msg.role)) \o <<":", " ">> \o msg.content

HistoryParts(conversation_history) ==
    LET shown == SelectSeq(HistoryWindow(conversation_history), Rendered)
    IN  [i \in 1..Len(shown) |-> HistoryLine(shown[i])]

NoHistoryPlaceholder ==
    <<"N", "o", " ", "p", "r", "e", "v", "i", "o", "u", "s", " ", "c", "o",
      "n", "v", "e", "r", "s", "a", "t", "i", "o", "n">>

NoContextPlaceholder ==
    <<"N", "o", " ", "r", "e", "l", "e", "v", "a", "n", "t", " ", "c", "o",
      "n", "t", "e", "x", "t", " ", "f", "o", "u", "n", "d">>

\* Mutant: an empty section is left empty.
UserPromptNoPlaceholder(query, context_results, conversation_history) ==
    [history |-> JoinNewline(HistoryParts(conversation_history)),
     context |-> JoinNewline(ContextParts(context_results)),
     question |-> query]

\* The three variable sections of user_prompt: the history and context
\* texts, each replaced by its placeholder when empty, and the question.
UserPrompt(query, context_results, conversation_history) ==
    LET context_text == JoinNewline(ContextParts(context_results))
        history_text == JoinNewline(HistoryParts(conversation_history))
    IN  [history |-> IF history_text /= <<>> THEN history_text
                     ELSE NoHistoryPlaceholder,
         context |-> IF context_text /= <<>> THEN context_text
                     ELSE NoContextPlaceholder,
         question |-> query]

NoPrompt == [history |-> <<>>, context |-> <<>>, question |-> <<>>]

ErrorPrefix ==
    <<"E", "r", "r", "o", "r", " ", "g", "e", "n", "e", "r", "a", "t", "i",
      "n", "g", " ", "a", "n", "s", "w", "e", "r", ":", " ">>

\* Mutant: the handler returns the exception text without the prefix.
ErrorAnswerBare(e) == e

\* `return f"Error generating answer: {str(e)}"`
ErrorAnswer(e) == ErrorPrefix \o e

Ellipsis == <<".", ".", ".">>

\* Mutant: the ellipsis is appended only when the text was cut.
FormatSourcesEllipsisWhenCut(search_results) ==
    [i \in 1..Len(search_results) |->
        LET metadata == DictGet(search_results[i], "metadata", <<>>)
            chunk_text == DictGet(metadata, "chunk_text", <<>>)
        IN  [document_id |-> DictGet(metadata, "document_id", ""),
             filename |-> DictGet(metadata, "filename", "Unknown"),
             chunk_text |->
                 IF Len(chunk_text) > PreviewLen
                 THEN PySlice(chunk_text, 0, PreviewLen) \o <<".", ".", ".">>
                 ELSE chunk_text,
             relevance_score |->
                 Round4(DictGet(search_results[i], "score", 0))]]

\* Mutant: the score shown depends on how many messages have been stored.
FormatSourcesCounting(search_results) ==
    [i \in 1..Len(search_results) |->
        LET metadata == DictGet(search_results[i], "metadata", <<>>)
        IN  [document_id |-> DictGet(metadata, "document_id", ""),
             filename |-> DictGet(metadata, "filename", "Unknown"),
             chunk_text |->
                 PySlice(DictGet(metadata, "chunk_text", <<>>), 0, PreviewLen)
                     \o <<".", ".", ".">>,
             relevance_score |->
                 Round4(DictGet(search_results[i], "score", 0))
                     + Len(writes)]]

\* RAGService._format_sources
FormatSources(search_results) ==
    [i \in 1..Len(search_results) |->
        LET metadata == DictGet(search_results[i], "metadata", <<>>)
        IN  [document_id |-> DictGet(metadata, "document_id", ""),
             filename |-> DictGet(metadata, "filename", "Unknown"),
             chunk_text |->
                 PySlice(DictGet(metadata, "chunk_text", <<>>), 0, PreviewLen)
                     \o Ellipsis,
             relevance_score |->
                 Round4(DictGet(search_results[i], "score", 0))]]

AnswerResult(answer, search_results) ==
    [type |-> "answer", answer |-> answer,
     sources |-> FormatSources(search_results)]

NoResult == [type |-> "none"]

\* A request slot before query() is called.
IdleRequest ==
    [pc |-> "idle", user_query |-> <<>>, session_id |-> "none", top_k |-> 0,
     query_embedding |-> <<>>, search_results |-> <<>>,
     conversation_history |-> <<>>, answer |-> <<>>, result |-> NoResult,
     \* history: the user prompt sent to the language model
     prompt |-> NoPrompt,
     \* the step whose exception left query(), "" if none
     raised_at |-> "",
     \* history: collaborator calls made, in order; what the model call
     \* raised; the log and the number of writes when query() was called
     calls |-> <<>>, llm_raised |-> <<>>, log_at_start |-> <<>>,
     writes_at_start |-> 0,
     \* history: the logs when the history was read
     log_at_read |-> <<>>]

InitRag ==
    /\ log = [k \in SessionKeys |-> <<>>]
    /\ req = [r \in Requests |-> IdleRequest]
    /\ writes = <<>>

\* The chunking variables while the pipeline is studied.
ChunkingIdle ==
    /\ settings = [chunk_size |-> DefaultChunkSize,
                   chunk_overlap |-> DefaultChunkOverlap]
    /\ strategy = "none"
    /\ args = NoSelf
    /\ document = <<>>
    /\ cpc = "idle"
    /\ self = NoSelf
    /\ text = <<>>
    /\ chunks = <<>>
    /\ chunk_index = 0
    /\ start = 0
    /\ iters = 0
    /\ sentences = <<>>
    /\ si = 0
    /\ current_chunk = <<>>
    /\ current_size = 0
    /\ groups = <<>>

Init ==
    InitRag /\ ChunkingIdle /\ ing = NoIngest /\ rd = NoRead /\ fs = <<>>

\* query(user_query, session_id, top_k) is called.
Submit(r) ==
    /\ req[r].pc = "idle"
    /\ \A earlier \in ArrivesAfter[r] : req[earlier].pc /= "idle"
    /\ \E q \in Queries, sid \in Sessions :
           req' = [req EXCEPT ![r] =
                      [@ EXCEPT !.pc = "routing", !.user_query = q,
                                !.session_id = sid, !.top_k = TopK,
                                !.log_at_start = log,
                                !.writes_at_start = Len(writes)]]
    /\ UNCHANGED <<log, writes, chunkVars, ingestVars, storeVars>>

\* The intent check: a booking query returns at once.
Route(r) ==
    /\ req[r].pc = "routing"
    /\ req' = [req EXCEPT ![r] =
                  IF RoutesToBooking(@.user_query)
                  THEN [@ EXCEPT !.pc = "returned", !.result = BookingResult]
                  ELSE [@ EXCEPT !.pc = StepAfter("routing")]]
    /\ UNCHANGED <<log, writes, chunkVars, ingestVars, storeVars>>

\* Step 1: embedding_service.generate_embedding; an exception propagates.
Embed(r) ==
    /\ req[r].pc = "embed"
    /\ \E ok \in BOOLEAN :
           req' = [req EXCEPT ![r] =
                      IF ok
                      THEN [@ EXCEPT !.pc = StepAfter("embed"),
                                     !.calls = Append(@, "embed"),
                                     !.query_embedding =
                                         Embedding(req[r].user_query)]
                      ELSE [@ EXCEPT !.pc = "raised",
                                     !.raised_at = "embed",
                                     !.calls = Append(@, "embed")]]
    /\ UNCHANGED <<log, writes, chunkVars, ingestVars, storeVars>>

\* Step 2: vector_store.search; an exception propagates.
Search(r) ==
    /\ req[r].pc = "search"
    /\ \/ \E resp \in SearchResponses(req[r].top_k) :
              req' = [req EXCEPT ![r] =
                         [@ EXCEPT !.pc = StepAfter("search"),
                                   !.calls = Append(@, "search"),
                                   !.search_results = resp]]
       \/ req' = [req EXCEPT ![r] =
                     [@ EXCEPT !.pc = "raised", !.raised_at = "search",
                               !.calls = Append(@, "search")]]
    /\ UNCHANGED <<log, writes, chunkVars, ingestVars, storeVars>>

\* Step 3: redis_service.get_conversation_history(limit=10); an exception
\* propagates.
ReadHistory(r) ==
    /\ req[r].pc = "history"
    /\ \E ok \in BOOLEAN :
           req' = [req EXCEPT ![r] =
                      IF ok
                      THEN [@ EXCEPT !.pc = StepAfter("history"),
                                     !.calls = Append(@, "history"),
                                     !.log_at_read = log,
                                     !.conversation_history =
                                         GetConversationHistory(
                                             log[SessionKey(req[r].session_id)],
                                             HistoryLimit)]
                      ELSE [@ EXCEPT !.pc = "raised",
                                     !.raised_at = "history",
                                     !.calls = Append(@, "history")]]
    /\ UNCHANGED <<log, writes, chunkVars, ingestVars, storeVars>>

\* Step 4: _generate_answer.  The model call is inside try/except Exception:
\* its reply is stripped, its exception becomes the answer text.
Generate(r) ==
    /\ req[r].pc = "generate"
    /\ LET user_prompt == UserPrompt(req[r].user_query, req[r].search_results,
                                     req[r].conversation_history)
       IN  \/ \E content \in Replies :
                  req' = [req EXCEPT ![r] =
                             [@ EXCEPT !.pc = StepAfter("generate"),
                                       !.calls = Append(@, "llm"),
                                       !.prompt = user_prompt,
                                       !.answer = Strip(content)]]
           \/ \E e \in LlmErrors :
                  req' = [req EXCEPT ![r] =
                             [@ EXCEPT !.pc = StepAfter("generate"),
                                       !.calls = Append(@, "llm"),
                                       !.prompt = user_prompt,
                                       !.llm_raised = e,
                                       !.answer = ErrorAnswer(e)]]
    /\ UNCHANGED <<log, writes, chunkVars, ingestVars, storeVars>>

\* RedisService.save_message(session_id, role, content) by request r, ending
\* as outcome says; next is where query() goes on when it returns.
SaveMessage(r, step, role, content, outcome) ==
    LET key == SessionKey(req[r].session_id)
        entry == JsonDumps(Message(role, content))
        stored == outcome /= "rpush_raises"
    IN  /\ log' = IF stored THEN [log EXCEPT ![key] = RPush(@, entry)]
                  ELSE log
        /\ writes' = IF stored
                     THEN Append(writes, [req |-> r, key |-> key,
                                          message |-> Message(role, content)])
                     ELSE writes
        /\ req' = [req EXCEPT ![r] =
                      IF outcome = "ok"
                      THEN IF StepAfter(step) = "returned"
                           THEN [@ EXCEPT !.pc = "returned",
                                          !.calls = Append(@, "append"),
                                          !.result =
                                              AnswerResult(
                                                  req[r].answer,
                                                  req[r].search_results)]
                           ELSE [@ EXCEPT !.pc = StepAfter(step),
                                          !.calls = Append(@, "append")]
                      ELSE [@ EXCEPT !.pc = "raised", !.raised_at = step,
                                     !.calls = Append(@, "append")]]

\* Step 5, first call: the user query is saved.
SaveUser(r) ==
    /\ req[r].pc = "save_user"
    /\ \E outcome \in SaveOutcomes :
           SaveMessage(r, "save_user", "user", req[r].user_query, outcome)
    /\ UNCHANGED <<chunkVars, ingestVars, storeVars>>

\* Step 5, second call: the answer is saved; then the sources are formatted
\* and the result is returned.
SaveAssistant(r) ==
    /\ req[r].pc = "save_assistant"
    /\ \E outcome \in SaveOutcomes :
           SaveMessage(r, "save_assistant", "assistant", req[r].answer,
                       outcome)
    /\ UNCHANGED <<chunkVars, ingestVars, storeVars>>

Next ==
    \E r \in Requests :
        \/ Submit(r)
        \/ Route(r)
        \/ Embed(r)
        \/ Search(r)
        \/ ReadHistory(r)
        \/ Generate(r)
        \/ SaveUser(r)
        \/ SaveAssistant(r)

Spec == Init /\ [][Next]_vars

\* ======================================================================
\* Two queries on sessions that already hold messages
\* ======================================================================
\* What each session holds when the two queries arrive: one exchange each,
\* stored by save_message.
PriorLogOf(session_id) ==
    LET n == IF session_id = "s1" THEN "1" ELSE "2"
    IN  <<JsonDumps(Message("user", <<"q", n>>)),
          JsonDumps(Message("assistant", <<"\"", "a", "\"", n>>))>>

InitSessions ==
    /\ ChunkingIdle
    /\ ing = NoIngest
    /\ rd = NoRead
    /\ fs = <<>>
    /\ writes = <<>>
    /\ req = [r \in Requests |-> IdleRequest]
    /\ log = [k \in SessionKeys |-> PriorLogOf(k[2])]

SpecSessions == InitSessions /\ [][Next]_vars

\* ======================================================================
\* The intent check of query() on its own
\* ======================================================================
\* Queries for the classifier.  Each keyword in lower case, in upper case
\* and capitalised, alone or inside a longer text ...
UpperChar(c) ==
    IF \E i \in 1..Len(LowerLetters) : LowerLetters[i] = c
    THEN UpperLetters[CHOOSE i \in 1..Len(LowerLetters) : LowerLetters[i] = c]
    ELSE c

StrUpper(t) == [i \in 1..Len(t) |-> UpperChar(t[i])]

Capitalize(t) == [i \in 1..Len(t) |-> IF i = 1 THEN UpperChar(t[i]) ELSE t[i]]

KeywordForms ==
    UNION {{kw, StrUpper(kw), Capitalize(kw)} : kw \in BookingKeywords}

QueryPrefixes == {<<>>, <<"x">>, <<"R", "e", " ">>}
QuerySuffixes == {<<>>, <<"s">>, <<" ", "?">>}

KeywordQueries ==
    {p \o k \o s : p \in QueryPrefixes, k \in KeywordForms,
                   s \in QuerySuffixes}

\* ... and texts that hold no keyword: near misses of each, the empty query.
PlainQueries ==
    {<<>>, QueryHi, QueryWhy,
     <<"b", "o", "k">>, <<"B", "o", "o", " ", "k">>,
     <<"s", "c", "h", "e", "d", "u", "l">>,
     <<"i", "n", "t", "e", "r", " ", "v", "i", "e", "w">>,
     <<"a", "p", "p", "o", "i", "n", "t">>,
     <<"m", "e", "e", "t">>, <<"m", "e", "e", "t", " ", "i", "n", "g">>,
     <<"S", "e", "t", "u", "p">>, <<"s", "e", "t", " ", " ", "u", "p">>,
     <<"s", "e", "t", "\n", "u", "p">>,
     <<"a", "r", "a", "n", "g", "e">>,
     <<"r", "e", "s", "e", "r", "v">>,
     <<"k", "o", "o", "b">>}

IntentQueries == KeywordQueries \cup PlainQueries

\* A session log that already holds one exchange.
PriorLog ==
    <<JsonDumps(Message("user", QueryHi)),
      JsonDumps(Message("assistant", <<"o", "k">>))>>

\* query(user_query, session_id) has just been called by the first request,
\* on a session whose log is empty or holds an exchange.
InitIntent ==
    /\ ChunkingIdle
    /\ ing = NoIngest
    /\ rd = NoRead
    /\ fs = <<>>
    /\ writes = <<>>
    /\ \E prior \in {<<>>, PriorLog} :
           log = [k \in SessionKeys |-> prior]
    /\ \E q \in IntentQueries, sid \in Sessions :
           req = [r \in Requests |->
                     IF r = "r1"
                     THEN [IdleRequest EXCEPT !.pc = "routing",
                                              !.user_query = q,
                                              !.session_id = sid,
                                              !.top_k = TopK,
                                              !.log_at_start = log]
                     ELSE IdleRequest]

NextIntent == \E r \in Requests : Route(r)

SpecIntent == InitIntent /\ [][NextIntent]_vars

\* ======================================================================
\* A session with a history: the store used directly, and one query
\* ======================================================================
\* The request under study.
Studied == {"r1"}

\* The session earlier queries have written to.
BusySession == "s1"

\* The content of the i-th message of the session; every third one holds characters that json.dumps escapes.
EarlierContent(i) ==
    IF i % 3 = 0 THEN <<"m", "\"", "\n", "\\">> \o DecimalStr(i)
    ELSE <<"m">> \o DecimalStr(i)

\* What an earlier query stored as its answer: the stripped reply of the
\* model, which is empty when the reply was blank.
EarlierAnswers(i) == {EarlierContent(i), Strip(<<" ", "\n">>)}

\* save_message as called by the queries answered earlier on the session:
\* user and assistant messages in turn.
EarlierSave ==
    /\ \A r \in Requests : req[r].pc = "idle"
    /\ ~rd.done
    /\ Len(log[SessionKey(BusySession)]) < MaxHistory
    /\ LET key == SessionKey(BusySession)
           i == Len(log[key]) + 1
           role == IF i % 2 = 1 THEN "user" ELSE "assistant"
       IN  \E content \in IF role = "user" THEN {EarlierContent(i)}
                          ELSE EarlierAnswers(i) :
               /\ log' = [log EXCEPT
                             ![key] = RPush(@, JsonDumps(Message(role,
                                                                 content)))]
               /\ writes' = Append(writes,
                                   [req |-> "earlier", key |-> key,
                                    message |-> Message(role, content)])
    /\ UNCHANGED <<req, chunkVars, ingestVars, storeVars>>

\* get_conversation_history(session_id, limit) called on the store; limit 0
\* stands for None too.
StoreRead ==
    /\ \A r \in Requests : req[r].pc = "idle"
    /\ ~rd.done
    /\ \E sid \in Sessions, limit \in 0..(MaxHistory + 1) :
           rd' = [session_id |-> sid, limit |-> limit,
                  messages |->
                      GetConversationHistory(log[SessionKey(sid)], limit),
                  log_before |-> log, done |-> TRUE]
    /\ UNCHANGED <<log, req, writes, chunkVars, ingestVars, fs>>

\* One call of query() on the session.
StudiedQuery ==
    /\ ~rd.done
    /\ \E r \in Studied :
           \/ Submit(r)
           \/ Route(r)
           \/ Embed(r)
           \/ Search(r)
           \/ ReadHistory(r)
           \/ Generate(r)
           \/ SaveUser(r)
           \/ SaveAssistant(r)

NextHistory ==
    \/ EarlierSave
    \/ StoreRead
    \/ StudiedQuery

SpecHistory == Init /\ [][NextHistory]_vars

\* ----------------------------------------- a log with undecodable entries
\* The entries of a list that json.loads cannot decode.
ForeignIn(list) == SelectSeq(list, LAMBDA e : ~IsJson(e))

\* Another client of the Redis server pushes text that is no JSON onto the
\* list of the session.
ForeignPush ==
    /\ \A r \in Requests : req[r].pc = "idle"
    /\ ~rd.done
    /\ Len(log[SessionKey(BusySession)]) < MaxHistory
    /\ Len(ForeignIn(log[SessionKey(BusySession)])) < MaxForeign
    /\ log' = [log EXCEPT ![SessionKey(BusySession)] = RPush(@, ForeignEntry)]
    /\ UNCHANGED <<req, writes, chunkVars, ingestVars, storeVars>>

NextStore ==
    \/ EarlierSave
    \/ ForeignPush
    \/ StoreRead

\* save_message and get_conversation_history called on a store that another
\* client writes to as well.
SpecStore == Init /\ [][NextStore]_vars

\* ======================================================================
\* Search results of every shape, through the composer
\* ======================================================================
\* Points as VectorStore.search formats them (id, score, payload).  Payloads
\* written by ingestion hold every key; a collection may hold others.
ExactText == [i \in 1..PreviewLen |-> IF i = PreviewLen THEN "z" ELSE "y"]

Hit3 ==
    [id |-> "p3", score |-> 733333,
     metadata |-> [document_id |-> "d1", filename |-> "b.pdf",
                   chunk_text |-> ExactText]]
Hit4 ==
    [id |-> "p4", score |-> 0 - 123456,
     metadata |-> [filename |-> "b.pdf", chunk_text |-> <<>>]]
Hit5 ==
    [id |-> "p5", score |-> 1000000,
     metadata |-> [document_id |-> "d3", filename |-> "a.txt"]]
Hit6 == [id |-> "p6", score |-> 42, metadata |-> <<>>]

Hits == {Hit1, Hit2, Hit3, Hit4, Hit5, Hit6}

\* Responses of the retriever: every list of at most two points, and two
\* of top_k points, one of them with a point twice.
SourceLists ==
    SeqsUpTo(Hits, 2)
        \cup {<<Hit5, Hit1, Hit3, Hit2, Hit6>>, <<Hit2, Hit3, Hit3, Hit4, Hit6>>}

\* query() has embedded the query and the search has returned.
InitSources ==
    /\ ChunkingIdle
    /\ ing = NoIngest
    /\ rd = NoRead
    /\ fs = <<>>
    /\ writes = <<>>
    /\ \E prior \in {<<>>, PriorLog} :
           log = [k \in SessionKeys |-> prior]
    /\ \E results \in SourceLists :
           req = [r \in Requests |->
                     IF r \in Studied
                     THEN [IdleRequest EXCEPT
                              !.pc = StepAfter("search"),
                              !.user_query = QueryHi,
                              !.session_id = BusySession,
                              !.top_k = TopK,
                              !.query_embedding = Embedding(QueryHi),
                              !.search_results = results,
                              !.calls = <<"embed", "search">>,
                              !.log_at_start = log]
                     ELSE IdleRequest]

\* _format_sources(search_results) called on the list the query holds.
FormatSourcesCall ==
    /\ Len(fs) < 2
    /\ \E r \in Studied :
           fs' = Append(fs, [input |-> req[r].search_results,
                             output |-> FormatSources(req[r].search_results),
                             at |-> req[r].pc])
    /\ UNCHANGED <<chunkVars, ragVars, ingestVars, rd>>

\* The rest of query().
ComposerSteps ==
    \E r \in Studied :
        \/ ReadHistory(r)
        \/ Generate(r)
        \/ SaveUser(r)
        \/ SaveAssistant(r)

NextSources ==
    \/ FormatSourcesCall
    \/ ComposerSteps

SpecSources == InitSources /\ [][NextSources]_vars

\* ======================================================================
\* Ingestion: api/ingestion.py, ingest_document
\* ======================================================================
\* ------------------------------------------------------------- inputs
\* Values of the chunking_strategy form field.
StrategyNames == {"fixed", "semantic", "Fixed", "sentence", ""}

\* Texts DocumentProcessor.extract_text may return: empty, whitespace only,
\* and short texts of one or two sentences (all shorter than the default
\* min_chunk_size, so the default semantic chunker emits nothing for them).
IngestTexts ==
    {<<>>, <<" ", "\n">>, <<"a", " ", "a", ".">>,
     <<"a", ".", " ", "\n", "a", "?">>, <<" ", "a", "a", " ">>}

\* The settings an ingesting process may run with: those of SettingsChoices,
\* or a small chunk_size and chunk_overlap set through the environment.
IngestSettings ==
    SettingsChoices \cup {[chunk_size |-> 3, chunk_overlap |-> 1]}

\* ------------------------------------------------------ chunking.py
\* The keys of the `strategies` dictionary.
Strategies == {"fixed", "semantic"}

\* Mutant: an unknown name falls back to the fixed-size strategy.
GetChunkingStrategyLenient(name) ==
    IF name = "semantic"
    THEN [raises |-> FALSE, class |-> "semantic",
          args |-> [chunk_size |-> 0, chunk_overlap |-> 0,
                    min_chunk_size |-> DefaultMinChunkSize]]
    ELSE [raises |-> FALSE, class |-> "fixed", args |-> NoSelf]

\* get_chunking_strategy(strategy): ValueError for a name that is no key,
\* else the class under that key, constructed with no arguments.
GetChunkingStrategy(name) ==
    IF name \notin Strategies
    THEN [raises |-> TRUE, class |-> "none", args |-> NoSelf]
    ELSE IF name = "fixed"
    THEN [raises |-> FALSE, class |-> "fixed", args |-> NoSelf]
    ELSE [raises |-> FALSE, class |-> "semantic",
          args |-> [chunk_size |-> 0, chunk_overlap |-> 0,
                    min_chunk_size |-> DefaultMinChunkSize]]

\* ------------------------------------------------------ ingest_document
\* raise HTTPException(status_code, detail): the response of the endpoint.
Respond(status, detail) ==
    [ing EXCEPT !.pc = "responded", !.status = status, !.detail = detail]

\* `if not text.strip()`
NoText(t) == Strip(t) = <<>>

\* Mutant: a list of no chunks is let through.
NoChunksLetThrough(cs) == FALSE

\* `if not chunks`
NoChunks(cs) == cs = <<>>

InitIngest ==
    /\ settings \in IngestSettings
    /\ strategy = "none"
    /\ args = NoSelf
    /\ document = <<>>
    /\ cpc = "idle"
    /\ self = NoSelf
    /\ text = <<>>
    /\ chunks = <<>>
    /\ chunk_index = 0
    /\ start = 0
    /\ iters = 0
    /\ sentences = <<>>
    /\ si = 0
    /\ current_chunk = <<>>
    /\ current_size = 0
    /\ groups = <<>>
    /\ log = <<>>
    /\ req = <<>>
    /\ writes = <<>>
    /\ rd = NoRead
    /\ fs = <<>>
    /\ \E name \in StrategyNames :
           ing = [NoIngest EXCEPT !.pc = "extract", !.chunking_strategy = name]

\* Steps 1 and 2: validation and DocumentProcessor.extract_text (either may
\* raise: 400), then the test `if not text.strip()`.
IngestExtract ==
    /\ ing.pc = "extract"
    /\ \/ ing' = Respond(400, "Text extraction failed")
       \/ \E t \in IngestTexts :
              ing' = IF NoText(t)
                     THEN [Respond(400,
                                   "No text could be extracted from the file")
                              EXCEPT !.text = t]
                     ELSE [ing EXCEPT !.pc = "select", !.text = t]
    /\ UNCHANGED <<chunkVars, ragVars, storeVars>>

\* Step 3, first line: get_chunking_strategy inside `try`; its ValueError
\* is answered with 400, else the chunker is about to be constructed and
\* chunk(text) called.
IngestSelect ==
    /\ ing.pc = "select"
    /\ LET got == GetChunkingStrategy(ing.chunking_strategy)
       IN  IF got.raises
           THEN /\ ing' = Respond(400, "Chunking failed")
                /\ UNCHANGED chunkVars
           ELSE /\ ing' = [ing EXCEPT !.pc = "chunking"]
                /\ strategy' = got.class
                /\ args' = got.args
                /\ document' = ing.text
                /\ cpc' = "new"
                /\ UNCHANGED <<settings, self, text, chunks, chunk_index,
                               start, iters, sentences, si, current_chunk,
                               current_size, groups>>
    /\ UNCHANGED <<ragVars, storeVars>>

\* chunker.chunk(text) has returned: `if not chunks` answers 400.
IngestChunked ==
    /\ ing.pc = "chunking"
    /\ cpc = "done"
    /\ ing' = IF NoChunks(chunks)
              THEN Respond(400, "Chunking produced no results")
              ELSE [ing EXCEPT !.pc = "embed"]
    /\ UNCHANGED <<chunkVars, ragVars, storeVars>>

\* Step 4: embedding_service.generate_embeddings(chunk_texts).
IngestEmbed ==
    /\ ing.pc = "embed"
    /\ \E ok \in BOOLEAN :
           ing' = IF ok
                  THEN [ing EXCEPT !.pc = "store",
                                   !.calls = Append(@, "generate_embeddings")]
                  ELSE [Respond(500, "Embedding generation failed")
                           EXCEPT !.calls = Append(@, "generate_embeddings")]
    /\ UNCHANGED <<chunkVars, ragVars, storeVars>>

\* Step 7: vector_store.add_vectors(embeddings, metadatas).
IngestStore ==
    /\ ing.pc = "store"
    /\ \E ok \in BOOLEAN :
           ing' = IF ok
                  THEN [ing EXCEPT !.pc = "save",
                                   !.calls = Append(@, "add_vectors")]
                  ELSE [Respond(500, "Vector storage failed")
                           EXCEPT !.calls = Append(@, "add_vectors")]
    /\ UNCHANGED <<chunkVars, ragVars, storeVars>>

\* Steps 8 to 10: the document and chunk rows are added and committed, and
\* the success response is returned; a database error is rolled back and
\* answered with 500.
IngestSave ==
    /\ ing.pc = "save"
    /\ \E ok \in BOOLEAN :
           ing' = IF ok
                  THEN [Respond(200, "success")
                           EXCEPT !.calls = Append(@, "db_commit"),
                                  !.chunks_count = Len(chunks)]
                  ELSE [Respond(500, "Error processing document")
                           EXCEPT !.calls = Append(@, "db_rollback")]
    /\ UNCHANGED <<chunkVars, ragVars, storeVars>>

NextIngest ==
    \/ IngestExtract
    \/ IngestSelect
    \/ FixedConstruct
    \/ FixedBegin
    \/ FixedIterate
    \/ FixedReturn
    \/ SemanticConstruct
    \/ SemanticBegin
    \/ SemanticIterate
    \/ SemanticFlush
    \/ IngestChunked
    \/ IngestEmbed
    \/ IngestStore
    \/ IngestSave

SpecIngest == InitIngest /\ [][NextIngest]_vars

\* ----------------------------------------- ingestion and blank documents
\* Documents of blanks only, the empty one among them.
BlankDocuments == {d \in Documents : Strip(d) = <<>>}

\* Either chunker called directly on a blank document.
InitBlank == InitChunking /\ document \in BlankDocuments

\* ingest_document on any of its inputs, or a chunker called directly on a
\* blank document (which ingest_document never passes on).
SpecEmptyInput == (InitIngest \/ InitBlank) /\ [][NextIngest]_vars

\* ======================================================================
\* Properties of the chunking strategies
\* ======================================================================
IsFixed == strategy = "fixed"
IsSemantic == strategy = "semantic"

\* The constructor arguments the specification calls valid for the
\* fixed-size strategy: chunk_size > 0 and chunk_overlap in [0, chunk_size).
ValidFixedArgs ==
    /\ IsFixed
    /\ args.chunk_size > 0
    /\ args.chunk_overlap >= 0
    /\ args.chunk_overlap < args.chunk_size

\* chunk_overlap >= chunk_size, as passed to the constructor.
InvalidOverlapArgs ==
    /\ IsFixed
    /\ args.chunk_size > 0
    /\ args.chunk_overlap >= args.chunk_size

RECURSIVE Flatten(_)
Flatten(ss) == IF ss = <<>> THEN <<>> ELSE Head(ss) \o Flatten(Tail(ss))

ChunkTexts == [i \in 1..Len(chunks) |-> chunks[i].chunk_text]

ReachesFloor(g) == Len(JoinSpace(g)) >= self.min_chunk_size
BelowFloor(g) == Len(JoinSpace(g)) < self.min_chunk_size

\* Position p (0-based) of the cleaned text lies in an emitted window.
Covered(p) ==
    \E i \in 1..Len(chunks) :
        chunks[i].start_position <= p /\ p < chunks[i].end_position

WindowsIncrease ==
    \A i, j \in 1..Len(chunks) :
        i < j => chunks[i].start_position < chunks[j].start_position

NoBlankChunk ==
    \A i \in 1..Len(chunks) : Strip(chunks[i].chunk_text) /= <<>>

\* C5: fixed chunking terminates for every valid configuration.  start moves
\* by the same amount chunk_size - chunk_overlap in every iteration and the
\* break test can only succeed in the first one, so a call that returns has
\* made at most len(text) iterations: a run of a valid configuration that
\* makes more never returns.
C5_FixedTerminates == ValidFixedArgs => iters <= Len(text)

\* C6: a fixed-size chunker whose chunk_overlap >= chunk_size is rejected
\* with a configuration error: it never runs an iteration of the window loop
\* and chunk() never returns a chunk list.
C6_InvalidOverlapRejected == InvalidOverlapArgs => (iters = 0 /\ cpc /= "done")

\* C7, as claimed: when chunk() returns for a valid configuration, every
\* character position of the cleaned text lies in the window of an emitted
\* chunk, the windows are in increasing start order and no chunk text is
\* blank.
C7_FixedCoverageAllPositions ==
    (cpc = "done" /\ ValidFixedArgs) =>
        /\ \A p \in 0..(Len(text) - 1) : Covered(p)
        /\ WindowsIncrease
        /\ NoBlankChunk

\* C7, amended: when chunk() returns for a valid configuration, every
\* non-whitespace character position of the cleaned text lies in the window
\* of an emitted chunk, the windows are in increasing start order and no
\* chunk text is blank.
C7_FixedCoverage ==
    (cpc = "done" /\ ValidFixedArgs) =>
        /\ \A p \in 0..(Len(text) - 1) : ~IsSpace(text[p + 1]) => Covered(p)
        /\ WindowsIncrease
        /\ NoBlankChunk

\* A call with a valid configuration returned several windows, and a
\* character of the text between two of them was in a skipped window.
C7_Witness ==
    /\ cpc = "done"
    /\ ValidFixedArgs
    /\ Len(chunks) >= 2
    /\ \E p \in 0..(Len(text) - 1) : ~Covered(p)

\* C8: every emitted semantic chunk has joined length >= min_chunk_size; the
\* emitted chunks are the groups that reach the floor, in order, so every
\* group below the floor is absent and, when there is one, fewer chunks are
\* returned than there were groups.
C8_SemanticFloor ==
    IsSemantic =>
        /\ \A i \in 1..Len(chunks) :
               Len(chunks[i].chunk_text) >= self.min_chunk_size
        /\ cpc = "done" =>
               /\ Len(chunks) = Len(SelectSeq(groups, ReachesFloor))
               /\ \A k \in 1..Len(groups) :
                      BelowFloor(groups[k]) =>
                          /\ Len(chunks) < Len(groups)
                          /\ \A i \in 1..Len(chunks) :
                                 chunks[i].chunk_text /= JoinSpace(groups[k])

\* A semantic call returned at least one chunk and dropped at least one
\* group.
C8_Witness ==
    /\ cpc = "done"
    /\ IsSemantic
    /\ Len(chunks) >= 1
    /\ \E k \in 1..Len(groups) : BelowFloor(groups[k])

\* C9, as claimed: the chunks returned by the semantic strategy, joined in
\* index order, are the sentences of the cleaned document, each once and in
\* document order.
C9_SemanticReconstructsAll ==
    (cpc = "done" /\ IsSemantic) =>
        JoinSpace(ChunkTexts) = JoinSpace(sentences)

\* C9, amended: the sentence groups partition the sentences of the cleaned
\* document in order, and the chunks returned, joined in index order, are
\* the sentences of the groups that reach min_chunk_size, each once and in
\* document order; the sentences of a group below the floor are absent.
C9_SemanticReconstruction ==
    (cpc = "done" /\ IsSemantic) =>
        /\ Flatten(groups) = sentences
        /\ JoinSpace(ChunkTexts) =
               JoinSpace(Flatten(SelectSeq(groups, ReachesFloor)))
        /\ (\A k \in 1..Len(groups) : ReachesFloor(groups[k])) =>
               JoinSpace(ChunkTexts) = JoinSpace(sentences)

\* A semantic call returned a chunk of a group closed in mid-document and
\* dropped another group.
C9_Witness ==
    /\ cpc = "done"
    /\ IsSemantic
    /\ Len(groups) >= 2
    /\ Len(chunks) >= 1
    /\ Len(chunks) < Len(groups)
    /\ Len(sentences) >= 3

\* C10: in both strategies the i-th chunk (0-based) of the list has
\* chunk_index = i at every point of the call; skipped windows and dropped
\* groups use no index.
C10_DenseIndices ==
    \A i \in 1..Len(chunks) : chunks[i].chunk_index = i - 1

\* A semantic call emitted a chunk after it had dropped a group.
C10_Witness ==
    /\ IsSemantic
    /\ Len(groups) >= 2
    /\ BelowFloor(groups[1])
    /\ Len(chunks) >= 1

\* A fixed-size call emitted a chunk after it had skipped a blank window.
C10_WitnessFixed ==
    /\ IsFixed
    /\ Len(chunks) >= 2
    /\ \E p \in 0..(Len(text) - 1) :
           /\ ~Covered(p)
           /\ chunks[1].start_position < p
           /\ p < chunks[Len(chunks)].start_position

\* C11: for every chunk emitted by either strategy, the chunk_size field is
\* the number of characters of that chunk's chunk_text.
C11_ChunkSizeField ==
    \A i \in 1..Len(chunks) : chunks[i].chunk_size = Len(chunks[i].chunk_text)

\* ======================================================================
\* Properties of the query pipeline
\* ======================================================================
\* The messages request r has stored, in order.
WritesBy(r) == SelectSeq(writes, LAMBDA w : w.req = r)

MessagesBy(r) == [i \in 1..Len(WritesBy(r)) |-> WritesBy(r)[i].message]

\* Some other caller has stored a message since r called query().
OthersWroteSince(r) ==
    \E i \in (req[r].writes_at_start + 1)..Len(writes) : writes[i].req /= r

\* The messages of a stored list, decoded.
Decoded(list) == [i \in 1..Len(list) |-> JsonLoads(list[i])]

KeyOf(r) == SessionKey(req[r].session_id)

\* The two messages of one answered query.
TurnOf(r) ==
    <<Message("user", req[r].user_query),
      Message("assistant", req[r].answer)>>

\* The queries of the model that the intent classifier takes for bookings.
BookingQueries == {q \in Queries : IsBookingIntent(q)}

Finished(r) == req[r].pc \in {"returned", "raised"}

LlmRaised(r) == req[r].llm_raised /= <<>>

\* The result the fail-soft contract promises for request r.
FailSoftResult(r) ==
    [type |-> "answer",
     answer |-> ErrorPrefix \o req[r].llm_raised,
     sources |-> FormatSources(req[r].search_results)]

C3_IntentShortCircuit ==
    \A r \in Requests :
        (req[r].pc \notin {"idle", "routing"}
             /\ req[r].user_query \in BookingQueries) =>
            /\ req[r].pc = "returned"
            /\ req[r].result.type = "booking_intent"
            /\ req[r].calls = <<>>
            /\ WritesBy(r) = <<>>
            /\ ~OthersWroteSince(r) => log = req[r].log_at_start

\* A booking query has returned on a session whose log holds messages.
C3_Witness ==
    \E r \in Requests :
        /\ req[r].pc = "returned"
        /\ req[r].result.type = "booking_intent"
        /\ req[r].user_query \in BookingQueries
        /\ Len(log[KeyOf(r)]) >= 2

\* C4: when the embedding call or the vector search raises, the exception
\* leaves query(): nothing is returned, the language model is never called
\* and the request appends no message, so the logs are as they were.
C4_HardFailure ==
    \A r \in Requests :
        req[r].raised_at \in {"embed", "search"} =>
            /\ req[r].pc = "raised"
            /\ req[r].result = NoResult
            /\ \A i \in 1..Len(req[r].calls) :
                   req[r].calls[i] \notin {"llm", "append", "history"}
            /\ WritesBy(r) = <<>>
            /\ ~OthersWroteSince(r) => log = req[r].log_at_start

\* The vector search of a query raised, on a session whose log holds
\* messages.
C4_Witness ==
    \E r \in Requests :
        /\ req[r].raised_at = "search"
        /\ req[r].pc = "raised"
        /\ Len(log[KeyOf(r)]) >= 2

\* ======================================================================
\* Properties of ingestion
\* ======================================================================
\* The chunker get_chunking_strategy builds for a name: the class under the
\* name, all arguments at their defaults.
DefaultChunker(name) ==
    IF name = "fixed"
    THEN [chunk_size |-> settings.chunk_size,
          chunk_overlap |-> settings.chunk_overlap, min_chunk_size |-> 0]
    ELSE [chunk_size |-> settings.chunk_size, chunk_overlap |-> 0,
          min_chunk_size |-> DefaultMinChunkSize]

\* ingest_document has passed the call of get_chunking_strategy.
PastSelection ==
    ing.pc \notin {"extract", "select"} /\ Strip(ing.text) /= <<>>

\* C12: get_chunking_strategy gives a FixedSizeChunking for "fixed" and a
\* SemanticChunking for "semantic", with default arguments; for every other
\* name it raises before any text is chunked, and ingestion then answers
\* with an error having made no embedding call, no vector-store write and no
\* database write.
C12_StrategySelection ==
    /\ (PastSelection /\ ing.chunking_strategy \in Strategies) =>
           /\ strategy = ing.chunking_strategy
           /\ cpc /= "idle"
           /\ document = ing.text
           /\ cpc /= "new" => self = DefaultChunker(ing.chunking_strategy)
    /\ (PastSelection /\ ing.chunking_strategy \notin Strategies) =>
           /\ ing.pc = "responded"
           /\ ing.status = 400
           /\ ing.detail = "Chunking failed"
    /\ ing.chunking_strategy \notin Strategies =>
           /\ cpc = "idle"
           /\ strategy = "none"
           /\ text = <<>> /\ chunks = <<>> /\ iters = 0 /\ si = 0
           /\ ing.calls = <<>>

\* An unknown name that differs from a known one only in case has been
\* refused for a text that is not blank.
C12_Witness ==
    /\ ing.chunking_strategy = "Fixed"
    /\ PastSelection
    /\ ing.status = 400

\* Ingestion with the name "fixed" has stored two or more chunks.
C12_WitnessKnown ==
    /\ ing.chunking_strategy = "fixed"
    /\ ing.status = 200
    /\ ing.chunks_count >= 2

\* ======================================================================
\* Properties of the intent check
\* ======================================================================
\* Request r has passed the intent check.
Routed(r) == req[r].pc \notin {"idle", "routing"}

\* The intent check sent request r to the booking branch.
TakenForBooking(r) ==
    req[r].pc = "returned" /\ req[r].result.type = "booking_intent"

\* C13: _is_booking_intent(q) is true exactly when the lower-cased query
\* holds one of the eight keywords as a substring: a keyword in any case and
\* with any text around it is taken for a booking, a text without one is
\* not; the outcome is that of the lower-cased and of the upper-cased query,
\* it is the same whatever the session and its log, and the check changes
\* no log.
C13_IntentClassifier ==
    /\ Cardinality(BookingKeywords) = 8
    /\ \A r \in Requests :
           Routed(r) =>
               /\ req[r].user_query \in KeywordQueries => TakenForBooking(r)
               /\ req[r].user_query \in PlainQueries => ~TakenForBooking(r)
               /\ TakenForBooking(r) =
                      IsBookingIntent(StrLower(req[r].user_query))
               /\ TakenForBooking(r) =
                      IsBookingIntent(StrUpper(req[r].user_query))
               /\ TakenForBooking(r) =
                      (\E kw \in BookingKeywords :
                           Contains(StrLower(req[r].user_query), kw))
               /\ log = req[r].log_at_start
               /\ writes = <<>>

\* An upper-case keyword inside a longer text has been taken for a booking
\* on a session whose log holds messages, which are still there.
C13_Witness ==
    \E r \in Requests :
        /\ TakenForBooking(r)
        /\ req[r].user_query =
               <<"x", "S", "E", "T", " ", "U", "P", " ", "?">>
        /\ log[KeyOf(r)] = PriorLog

\* A near miss of a keyword has gone on to the embedding step.
C13_WitnessPlain ==
    \E r \in Requests :
        /\ req[r].pc = "embed"
        /\ req[r].user_query = <<"s", "e", "t", " ", " ", "u", "p">>

\* ======================================================================
\* Properties of a session with a history
\* ======================================================================
\* The language model has been called for request r.
ModelCalled(r) == \E i \in 1..Len(req[r].calls) : req[r].calls[i] = "llm"

\* The messages of r's session when r called query(), decoded.
PriorMessages(r) == Decoded(req[r].log_at_start[KeyOf(r)])

\* The last k messages of a list, one line each, joined as in the prompt.
LastLines(messages, k) ==
    JoinNewline([i \in 1..k |->
                    HistoryLine(messages[Len(messages) - k + i])])

\* C14: for a session log of n prior messages, the prompt of the next query
\* renders exactly the last min(6, n) messages of the log, one line per
\* message, in their order, though the orchestrator has read the last 10.
C14_HistoryTruncation ==
    \A r \in Requests :
        ModelCalled(r) =>
            LET n == Len(PriorMessages(r))
            IN  /\ Len(req[r].conversation_history) = Min(HistoryLimit, n)
                /\ n > 0 =>
                       req[r].prompt.history =
                           LastLines(PriorMessages(r), Min(6, n))

\* The messages save_message has appended to the log under key, in order.
Appended(key) ==
    LET ws == SelectSeq(writes, LAMBDA w : w.key = key)
    IN  [i \in 1..Len(ws) |-> ws[i].message]

\* C15: for a log of n messages built by save_message and a limit N >= 1,
\* get_conversation_history returns the min(N, n) most recently appended
\* messages in the order they were appended, and leaves every log as it was.
C15_LastNRead ==
    (rd.done /\ rd.limit >= 1) =>
        LET all == Appended(SessionKey(rd.session_id))
            n == Len(all)
            k == Min(rd.limit, n)
        IN  /\ Len(rd.log_before[SessionKey(rd.session_id)]) = n
            /\ rd.messages = [i \in 1..k |-> all[n - k + i]]
            /\ log = rd.log_before

\* A read with a limit smaller than the log, which holds a message with
\* escaped characters among those returned.
C15_Witness ==
    /\ rd.done
    /\ rd.limit >= 2
    /\ rd.limit < Len(log[SessionKey(rd.session_id)])
    /\ \E i \in 1..Len(rd.messages) :
           \E j \in 1..Len(rd.messages[i].content) :
               rd.messages[i].content[j] = "\n"

\* ======================================================================
\* Properties of the composer's formatting
\* ======================================================================
\* The value under key of a search result's metadata, or absent.
MetaOr(result, key, absent) ==
    IF key \in DOMAIN result.metadata THEN result.metadata[key] ELSE absent

\* Source record src is what the claim describes for search result res.
SourceOf(res, src) ==
    LET chunk == MetaOr(res, "chunk_text", <<>>)
        kept == Min(Len(chunk), 200)
    IN  /\ Len(src.chunk_text) = kept + 3
        /\ \A j \in 1..kept : src.chunk_text[j] = chunk[j]
        /\ \A j \in (kept + 1)..(kept + 3) : src.chunk_text[j] = "."
        /\ src.filename = MetaOr(res, "filename", "Unknown")
        /\ src.document_id = MetaOr(res, "document_id", "")

\* Request r has returned an answer.
Answered(r) == req[r].pc = "returned" /\ req[r].result.type = "answer"

\* C16: for every search result, the Source's chunk_text is the first 200
\* characters of the chunk text followed by "..." whether or not anything
\* was cut (length min(len, 200) + 3), filename is the metadata's or
\* "Unknown", document_id is the metadata's or the empty string.
C16_SourceFormatting ==
    /\ \A k \in 1..Len(fs) :
           /\ Len(fs[k].output) = Len(fs[k].input)
           /\ \A i \in 1..Len(fs[k].input) :
                  SourceOf(fs[k].input[i], fs[k].output[i])
    /\ \A r \in Requests :
           Answered(r) =>
               \A i \in 1..Len(req[r].search_results) :
                   SourceOf(req[r].search_results[i],
                            req[r].result.sources[i])

\* A list with a text of more than 200 characters, one of exactly 200, an
\* empty one and a payload without keys has been formatted.
C16_Witness ==
    \E k \in 1..Len(fs) :
        /\ {Hit2, Hit3, Hit4, Hit6} \subseteq
               {fs[k].input[i] : i \in 1..Len(fs[k].input)}
        /\ \E i \in 1..Len(fs[k].output) :
               Len(fs[k].output[i].chunk_text) = 203
        /\ \E i \in 1..Len(fs[k].output) : fs[k].output[i].chunk_text = Ellipsis

\* The numbered block of the prompt claimed for result res at position i
\* (from 1): "[Source i: filename]", the chunk text, each ended by a newline.
BlockOf(i, res) ==
    <<"[", "S", "o", "u", "r", "c", "e", " ">> \o DecimalStr(i)
        \o <<":", " ">> \o NameChars(MetaOr(res, "filename", "Unknown"))
        \o <<"]", "\n">> \o MetaOr(res, "chunk_text", <<>>) \o <<"\n">>

\* C17: the sources returned by query are as many as the retriever's
\* results and sources[i] is built from search_results[i]; the prompt block
\* numbered i + 1 is built from search_results[i]; nothing is re-sorted,
\* dropped or duplicated.
C17_OrderPreserved ==
    \A r \in Requests :
        LET results == req[r].search_results
        IN  /\ Answered(r) =>
                   /\ Len(req[r].result.sources) = Len(results)
                   /\ \A i \in 1..Len(results) :
                          /\ SourceOf(results[i], req[r].result.sources[i])
                          /\ req[r].result.sources[i].relevance_score =
                                 Round4(results[i].score)
            /\ (ModelCalled(r) /\ results /= <<>>) =>
                   req[r].prompt.context =
                       JoinNewline([i \in 1..Len(results) |->
                                       BlockOf(i, results[i])])

\* A query has returned the sources of five results that were not in
\* descending order of score and held one point twice.
C17_Witness ==
    \E r \in Requests :
        /\ Answered(r)
        /\ req[r].search_results = <<Hit2, Hit3, Hit3, Hit4, Hit6>>
        /\ Len(req[r].result.sources) = 5

ClaimedKey(session_id) == <<"chat:session:", session_id>>

\* The messages stored by the requests made on a session, in order.
StoredOn(session_id) ==
    LET ws == SelectSeq(writes,
                        LAMBDA w : req[w.req].session_id = session_id)
    IN  [i \in 1..Len(ws) |-> ws[i].message]

\* Request r has read its history.
HasRead(r) ==
    /\ \E i \in 1..Len(req[r].calls) : req[r].calls[i] = "history"
    /\ req[r].raised_at /= "history"

\* The two requests are on different sessions.
Apart(r, o) ==
    r /= o /\ (req[o].pc = "idle" \/ req[o].session_id /= req[r].session_id)

\* C19: under any interleaving, a query appends only to the log of its own
\* session; the log of a session is what it held followed by the messages
\* of the queries on that session, in order, so a query on another session
\* never adds to it, removes from it or reorders it; and the history a
\* query reads is that of its session whatever a query on another session
\* is doing.
C19_SessionsIsolated ==
    /\ \A i \in 1..Len(writes) :
           writes[i].key = ClaimedKey(req[writes[i].req].session_id)
    /\ \A sid \in Sessions :
           /\ ClaimedKey(sid) \in DOMAIN log
           /\ Decoded(log[ClaimedKey(sid)]) =
                  Decoded(PriorLogOf(sid)) \o StoredOn(sid)
    /\ \A r, o \in Requests :
           (HasRead(r) /\ Apart(r, o)) =>
               req[r].conversation_history =
                   Decoded(PriorLogOf(req[r].session_id))

\* Two queries on different sessions have both answered, their appends
\* interleaved.
C19_Witness ==
    /\ \A r \in Requests : Answered(r)
    /\ req["r1"].session_id /= req["r2"].session_id
    /\ Len(writes) = 4
    /\ writes[1].req /= writes[2].req
    /\ writes[3].req /= writes[2].req

\* The two requests are on one session.
Together == req["r1"].session_id = req["r2"].session_id

\* s is a prefix of t.
IsPrefix(s, t) == Len(s) <= Len(t) /\ SubSeq(t, 1, Len(s)) = s

\* The log of the shared session is what it held followed by exactly the
\* four messages of the two queries, each query's user message before its
\* assistant message.
FourMessages ==
    LET sid == req["r1"].session_id
    IN  /\ Len(writes) = 4
        /\ \A r \in Requests : MessagesBy(r) = TurnOf(r)
        /\ Decoded(log[ClaimedKey(sid)]) =
               Decoded(PriorLogOf(sid)) \o StoredOn(sid)

\* What r read are the last messages of the log at the time of the read,
\* which is a beginning of the present log.
ConsistentRead(r) ==
    LET seen == req[r].log_at_read[KeyOf(r)]
    IN  /\ IsPrefix(seen, log[KeyOf(r)])
        /\ IsPrefix(PriorLogOf(req[r].session_id), seen)
        /\ req[r].conversation_history =
               Decoded(PySlice(seen, 0 - HistoryLimit, Len(seen)))

WritesOn(key) == SelectSeq(writes, LAMBDA w : w.key = key)

\* The append at position i of ws is a user message followed at once by the
\* assistant message of the same request.
PairedAt(ws, i) ==
    /\ i < Len(ws)
    /\ ws[i + 1].req = ws[i].req
    /\ ws[i + 1].message.role = "assistant"

\* C21: in every reachable state, including after a failure at any step and
\* with another request running on the same session, no session log holds a
\* request's user message without that request's assistant message
\* immediately after it, and no append is made before the model call of its
\* request has returned.
C21_AtomicCommit ==
    /\ \A key \in SessionKeys :
           \A i \in 1..Len(WritesOn(key)) :
               WritesOn(key)[i].message.role = "user" =>
                   PairedAt(WritesOn(key), i)
    /\ \A i \in 1..Len(writes) : ModelCalled(writes[i].req)

\* The part of C21 that the code keeps: no append is made before the model
\* call of its request has returned.
C21_NoAppendBeforeModel ==
    \A i \in 1..Len(writes) :
        /\ ModelCalled(writes[i].req)
        /\ req[writes[i].req].pc \in
               {"save_assistant", "returned", "raised"}

\* ======================================================================
\* Properties of the stored messages
\* ======================================================================
\* C22: after any sequence of queries, every message of every session log
\* has role user or assistant and non-empty content, whatever the language
\* model replied and whatever accepted query was asked.
C22_StoredMessages ==
    \A key \in SessionKeys :
        \A i \in 1..Len(log[key]) :
            LET msg == JsonLoads(log[key][i])
            IN  /\ msg.role \in {"user", "assistant"}
                /\ msg.content /= <<>>

\* The part of C22 that the code keeps: every stored role is user or
\* assistant, and every stored user message holds the accepted query, which
\* is not empty.
C22_StoredRoles ==
    \A key \in SessionKeys :
        \A i \in 1..Len(log[key]) :
            LET msg == JsonLoads(log[key][i])
            IN  /\ msg.role \in {"user", "assistant"}
                /\ msg.role = "user" => msg.content /= <<>>

\* ======================================================================
\* Properties of ingestion on empty input
\* ======================================================================
\* ingest_document has answered with an error and has called neither the
\* embedding service nor the vector store nor the database.
Rejected ==
    /\ ing.pc = "responded"
    /\ ing.status = 400
    /\ ing.calls = <<>>

\* ingest_document is past the extraction of the text.
PastExtraction == ing.pc \notin {"idle", "extract"}

\* ingest_document is past the call of chunk() and the test of its result.
PastChunking == ing.pc \in {"embed", "store", "save", "responded"} /\ cpc = "done"

\* C23: if the extracted text is empty or whitespace only, or the selected
\* chunker returns no chunk, ingestion ends in an error response without any
\* embedding call, vector-store write or database write; and both chunkers
\* return an empty list for the empty text.
C23_EmptyInput ==
    /\ (PastExtraction /\ Strip(ing.text) = <<>>) => Rejected
    /\ (PastChunking /\ chunks = <<>>) => Rejected
    /\ (ing.pc = "idle" /\ cpc = "done" /\ document = <<>>) => chunks = <<>>

\* The default semantic chunker has returned no chunk for a text of two
\* short sentences, and ingestion has answered.
C23_Witness ==
    /\ ing.pc = "responded"
    /\ ing.chunking_strategy = "semantic"
    /\ Len(groups) > 0
    /\ cpc = "done"
    /\ chunks = <<>>

\* A whitespace-only text has been answered.
C23_WitnessBlank ==
    /\ ing.pc = "responded"
    /\ ing.text /= <<>>
    /\ Strip(ing.text) = <<>>

\* Both chunkers have returned for the empty text.
C23_WitnessFixedEmpty ==
    ing.pc = "idle" /\ cpc = "done" /\ document = <<>> /\ IsFixed

C23_WitnessSemanticEmpty ==
    ing.pc = "idle" /\ cpc = "done" /\ document = <<>> /\ IsSemantic

\* ======================================================================
\* Properties of the sentence groups
\* ======================================================================
\* The sum of the lengths of the sentences of a list.
RECURSIVE SumLen(_)
SumLen(ss) == IF ss = <<>> THEN 0 ELSE Len(Head(ss)) + SumLen(Tail(ss))

\* The sentence lengths of the document sum to at most the target and the
\* joined text reaches the floor.
FitsOneGroup ==
    /\ SumLen(sentences) <= self.chunk_size
    /\ Len(JoinSpace(sentences)) >= self.min_chunk_size

\* One chunk of all the sentences, joined by single spaces.
OneChunkOfAll ==
    /\ Len(chunks) = 1
    /\ chunks[1].sentence_count = Len(sentences)
    /\ chunks[1].chunk_text = JoinSpace(sentences)

\* C24, as claimed: whenever the sentence lengths of a document sum to at
\* most chunk_size and the joined text has length >= min_chunk_size, the
\* semantic strategy returns exactly one chunk, of all the sentences joined
\* by single spaces, whose sentence_count is the number of sentences.
C24_SingleGroupAlways ==
    (cpc = "done" /\ IsSemantic /\ FitsOneGroup) => OneChunkOfAll

\* C24, amended: the same for a document that has at least one sentence; a
\* document with no sentence yields no chunk, whatever min_chunk_size is.
C24_SingleGroup ==
    (cpc = "done" /\ IsSemantic /\ FitsOneGroup) =>
        IF sentences = <<>> THEN chunks = <<>> ELSE OneChunkOfAll

\* A semantic call returned one chunk of two sentences whose lengths sum to
\* exactly the target.
C24_Witness ==
    /\ cpc = "done"
    /\ IsSemantic
    /\ Len(sentences) >= 2
    /\ SumLen(sentences) = self.chunk_size
    /\ Len(JoinSpace(sentences)) >= self.min_chunk_size
    /\ self.min_chunk_size >= 1
    /\ Len(chunks) = 1

\* ======================================================================
\* Properties of the call sequence
\* ======================================================================
\* The collaborator calls of an answering query, in order.
CallSequence == <<"embed", "search", "history", "llm", "append", "append">>

\* The position in CallSequence of the call made at a step of query().
CallIndex(step) ==
    CASE step = "embed" -> 1
      [] step = "search" -> 2
      [] step = "history" -> 3
      [] step = "generate" -> 4
      [] step = "save_user" -> 5
      [] step = "save_assistant" -> 6

\* Each call of request r was made with the arguments the claim names:
\* the query, its vector with top_k, the session with limit 10, and the two
\* messages of the turn.
CalledWithArguments(r) ==
    /\ req[r].query_embedding = Embedding(req[r].user_query)
    /\ req[r].search_results \in SearchResponses(req[r].top_k)
    /\ req[r].conversation_history =
           GetConversationHistory(req[r].log_at_read[KeyOf(r)], 10)
    /\ MessagesBy(r) = TurnOf(r)

\* C25: a query that is no booking and in which no call fails invokes its
\* collaborators in the order embed, search, history read with limit 10,
\* language model, append user message, append assistant message, once
\* each; no call is made twice; and once a failure has left query(), the
\* calls made are those up to the failing one and the request takes no
\* further step.
C25_CallSequence ==
    /\ [](\A r \in Requests :
              /\ IsPrefix(req[r].calls, CallSequence)
              /\ (req[r].pc = "returned" /\ req[r].result.type = "answer") =>
                     /\ req[r].calls = CallSequence
                     /\ CalledWithArguments(r)
              /\ (req[r].pc = "returned" /\ req[r].result.type /= "answer") =>
                     req[r].calls = <<>>
              /\ req[r].pc = "raised" =>
                     req[r].calls =
                         SubSeq(CallSequence, 1, CallIndex(req[r].raised_at)))
    /\ [][\A r \in Requests : Finished(r) => req'[r] = req[r]]_vars

\* One query has made all six calls and returned, the model call of which
\* raised; the other stopped at the history read, which raised.
C25_Witness ==
    /\ req["r1"].pc = "returned"
    /\ req["r1"].calls = CallSequence
    /\ LlmRaised("r1")
    /\ req["r2"].pc = "raised"
    /\ req["r2"].raised_at = "history"
    /\ req["r2"].calls = <<"embed", "search", "history">>

\* ======================================================================
\* Properties of the fixed-size windows
\* ======================================================================
\* ceil(a / b) for b > 0.
CeilDiv(a, b) == (a + b - 1) \div b

\* The distance between the starts of two successive windows, and the
\* number of windows of a text of the length of the cleaned one, as the
\* claim computes them from the constructor arguments.
WindowStep == args.chunk_size - args.chunk_overlap
WindowCount == CeilDiv(Len(text), WindowStep)

\* The windows (0-based) whose trimmed content is not empty.
NonBlankWindows ==
    {k \in 0..(WindowCount - 1) :
        Strip(PySlice(text, k * WindowStep,
                      k * WindowStep + args.chunk_size)) /= <<>>}

\* A fixed-size call with valid arguments has returned for a text that is
\* not empty once cleaned.
FixedReturned == cpc = "done" /\ ValidFixedArgs /\ Len(text) > 0

\* Chunk i (1-based here) lies on window k.
OnWindow(i, k) ==
    /\ chunks[i].start_position = k * WindowStep
    /\ chunks[i].end_position = chunks[i].start_position + args.chunk_size
    /\ Len(chunks[i].chunk_text) <= args.chunk_size

C26_WitnessBlank ==
    /\ FixedReturned
    /\ Len(chunks) >= 2
    /\ Len(chunks) < WindowCount

\* ======================================================================
\* Properties of the last fixed-size windows
\* ======================================================================
\* The chunks whose window reaches or passes the end of the cleaned text.
TailChunks == {i \in 1..Len(chunks) : chunks[i].end_position >= Len(text)}

\* The part of the text under chunk i lies inside the last chunk_overlap
\* characters of the window of chunk i - 1.
InsideOverlap(i) ==
    /\ chunks[i].start_position >=
           chunks[i - 1].end_position - self.chunk_overlap
    /\ Min(chunks[i].end_position, Len(text)) <= chunks[i - 1].end_position

\* C27: in a fixed-size call with valid arguments no window is started once
\* a window has reached or passed the end of the cleaned text, so at most
\* one emitted chunk has end_position >= len(text) and no emitted chunk
\* lies entirely inside the overlap region of the chunk before it.
C27_StopsAtTail ==
    ValidFixedArgs =>
        /\ Cardinality(TailChunks) <= 1
        /\ \A i \in 2..Len(chunks) : ~InsideOverlap(i)

\* What the loop does keep: a window is started only while start is before
\* the end of the text, so every emitted chunk starts inside the text.
C27_StartsInsideText ==
    ValidFixedArgs =>
        \A i \in 1..Len(chunks) : chunks[i].start_position < Len(text)

\* ======================================================================
\* Properties of the prompt sections
\* ======================================================================
\* The messages of the history of request r that the prompt renders: those
\* among the last six that have a role and a content.
ShownMessages(r) ==
    LET h == req[r].conversation_history
        n == Min(6, Len(h))
    IN  SelectSeq(SubSeq(h, Len(h) - n + 1, Len(h)),
                  LAMBDA m : m.role /= "" /\ m.content /= <<>>)

\* C28: the user prompt holds the query as it was asked; its history section
\* is "No previous conversation" exactly when no history message is
\* rendered, and otherwise the rendered lines; its context section is "No
\* relevant context found" exactly when the search-result list is empty, and
\* otherwise the numbered source blocks.
C28_PromptPlaceholders ==
    \A r \in Requests :
        ModelCalled(r) =>
            LET shown == ShownMessages(r)
                results == req[r].search_results
            IN  /\ req[r].prompt.question = req[r].user_query
                /\ req[r].prompt.history = NoHistoryPlaceholder <=>
                       shown = <<>>
                /\ shown /= <<>> =>
                       req[r].prompt.history = LastLines(shown, Len(shown))
                /\ req[r].prompt.context = NoContextPlaceholder <=>
                       results = <<>>
                /\ results /= <<>> =>
                       req[r].prompt.context =
                           JoinNewline([i \in 1..Len(results) |->
                                           BlockOf(i, results[i])])

\* A prompt was built with no history and two source blocks.
C28_Witness ==
    \E r \in Requests :
        /\ ModelCalled(r)
        /\ req[r].conversation_history = <<>>
        /\ req[r].prompt.history = NoHistoryPlaceholder
        /\ Len(req[r].search_results) = 2
        /\ req[r].prompt.context /= NoContextPlaceholder

\* A prompt was built with history lines and no search result.
C28_WitnessNoContext ==
    \E r \in Requests :
        /\ ModelCalled(r)
        /\ req[r].conversation_history /= <<>>
        /\ req[r].prompt.history /= NoHistoryPlaceholder
        /\ req[r].search_results = <<>>
        /\ req[r].prompt.context = NoContextPlaceholder

\* ======================================================================
\* Properties of the size of the sentence groups
\* ======================================================================
\* The groups of the call so far: those closed or flushed and, inside the
\* loop, the one being accumulated.
GroupsSoFar ==
    IF cpc = "loop" /\ current_chunk /= <<>>
    THEN Append(groups, current_chunk)
    ELSE groups

\* A group is closed exactly when the next sentence would push the
\* accumulated sentence lengths over the target while the accumulator is not
\* empty: no group is empty, a group of several sentences has accumulated at
\* most the target, and the sentence that follows a group would not have
\* fitted in it.
ClosedWhenFull ==
    LET gs == GroupsSoFar
    IN  /\ \A k \in 1..Len(gs) :
               /\ gs[k] /= <<>>
               /\ Len(gs[k]) >= 2 => SumLen(gs[k]) <= self.chunk_size
        /\ \A k \in 1..(Len(gs) - 1) :
               SumLen(gs[k]) + Len(gs[k + 1][1]) > self.chunk_size

\* C29, as claimed: groups are closed exactly when full, so every emitted
\* chunk of two or more sentences has a joined text (and a chunk_size field)
\* of at most the target chunk_size; only a chunk of one sentence may
\* exceed the target.
C29_JoinedWithinTarget ==
    IsSemantic =>
        /\ ClosedWhenFull
        /\ \A i \in 1..Len(chunks) :
               chunks[i].sentence_count >= 2 =>
                   /\ chunks[i].chunk_size <= self.chunk_size
                   /\ Len(chunks[i].chunk_text) <= self.chunk_size

\* C29, amended: groups are closed exactly when full, so in every emitted
\* chunk of two or more sentences the lengths of the sentences sum to at
\* most the target chunk_size, and the joined text, which has one space
\* more per further sentence, is at most chunk_size + sentence_count - 1
\* long; only in a chunk of one sentence may the sentences exceed the target.
C29_SemanticSizeBound ==
    IsSemantic =>
        /\ ClosedWhenFull
        /\ \A i \in 1..Len(chunks) :
               /\ chunks[i].chunk_size = Len(chunks[i].chunk_text)
               /\ chunks[i].sentence_count >= 2 =>
                      chunks[i].chunk_size <=
                          self.chunk_size + chunks[i].sentence_count - 1
               /\ chunks[i].chunk_size - (chunks[i].sentence_count - 1)
                      > self.chunk_size =>
                      chunks[i].sentence_count = 1

\* A semantic call closed a group of two sentences whose joined text is
\* longer than the target, emitted it, and went on to another group.
C29_Witness ==
    /\ IsSemantic
    /\ cpc = "done"
    /\ Len(groups) >= 2
    /\ \E i \in 1..Len(chunks) :
           /\ chunks[i].sentence_count >= 2
           /\ chunks[i].chunk_size > self.chunk_size

\* A chunk of a single sentence longer than the target was emitted.
C29_WitnessLongSentence ==
    /\ IsSemantic
    /\ \E i \in 1..Len(chunks) :
           /\ chunks[i].sentence_count = 1
           /\ chunks[i].chunk_size > self.chunk_size

\* ======================================================================
\* Properties of the unlimited read
\* ======================================================================
\* The entries of the list that was read.
EntriesRead == rd.log_before[SessionKey(rd.session_id)]

====
